---- MODULE Spec2Model ----
(***************************************************************************)
(* tmail: credential lifecycle, request queue and resilient request        *)
(* executor of the temporary-inbox client (src/index.js).                  *)
(*                                                                         *)
(* Scheduling model.  The client runs on one JavaScript event loop, so     *)
(* every action below is one run-to-completion turn of that loop: the      *)
(* code started by a public call, by a network response or by a timer,     *)
(* up to the next network call or timer every continuation waits on.       *)
(* Promise continuations that become runnable in a turn run in that turn,  *)
(* in the order in which they were registered.                             *)
(*                                                                         *)
(* Three specifications share the variables:                               *)
(*   Spec       one client instance (createClient) and its public calls;   *)
(*   SpecQueue  the RequestQueue class on its own, with abstract tasks     *)
(*              (SpecQueueFair: where every fn settles and timers fire);   *)
(*   SpecPoll   waitForMessage() on its own, with listMessages() as its    *)
(*              environment.                                               *)
(*                                                                         *)
(* Time.  SpecQueue and SpecPoll are timed: a delay() timer fires when     *)
(* the clock has reached its due time, timers of equal delay fire in       *)
(* creation order.                                                         *)
(* Spec keeps the timers but not their durations: a pending timer fires    *)
(* at some later turn, in any order with the other events, and Date.now()  *)
(* reads StartTime throughout (runs much shorter than TOKEN_EXPIRY_MS).    *)
(* What the client makes of the clock, the expiry test of a cache entry,   *)
(* is exercised through the age of the cache file found at start.          *)
(***************************************************************************)
EXTENDS Integers, Sequences, FiniteSets

\* ---------------------------------------------------------------- bounds
NumOps == 2        \* public operation calls made on the client (Spec)
MaxTasks == 4      \* tasks submitted to the queue (SpecQueue)
MaxTicks == 3      \* one-millisecond clock advances besides timer waits

\* ------------------------------------------------------ program constants
NULL == 0                              \* null / absent value
TOKEN_EXPIRY_MS == 30 * 60 * 1000
maxConcurrent == 2                     \* new RequestQueue(2, 100)
delayMs == 100
maxRetries == 2                        \* options.maxRetries ?? 2
timeout == 30000                       \* options.timeout ?? 30000
retryDelay == 10000                    \* options.retryDelay ?? 10000

\* Credential values.  A value names the acquisition response it was
\* derived from; token and cookie of one response carry the same value.
OptionCred == 1                        \* options.token / options.cookie
FileCred == 2                          \* a cache file left by an earlier run
FreshCreds == {3, 4}                   \* issued by the service to this run

Ops == 1..NumOps
Tasks == 1..MaxTasks

VARIABLES
  clock,              \* Date.now()
  ticks,              \* one-millisecond advances taken so far
  tokenCachePath,     \* TRUE when options.tokenCachePath is configured
  file,               \* content of the durable cache file
  token, cookie, email, memoryCache, tokenFetchPromise,
  waiters,            \* calls awaiting tokenFetchPromise, in await order
  queue, running,     \* RequestQueue fields
  wakeups,            \* due times of the pending delay(delayMs) timers
  op,                 \* the public operation calls
  task,               \* the abstract tasks of SpecQueue
  settled,            \* the calls that settled last and their outcome
  clearedSinceUse,    \* clearTokenCache() ran with credentials held and
                      \* no public operation has been called since
  pacingUntil,        \* end of the pacing delay that follows the latest
                      \* task settlement (0: no task has settled)
  poll                \* the waitForMessage() call of SpecPoll

vars == <<clock, ticks, tokenCachePath, file, token, cookie, email,
          memoryCache, tokenFetchPromise, waiters, queue, running, wakeups,
          op, task, settled, clearedSinceUse, pacingUntil, poll>>

clientVars_noOp == <<tokenCachePath, file, token, cookie, email, memoryCache,
                     tokenFetchPromise, waiters, clearedSinceUse>>

clientVars == <<clientVars_noOp, op, settled>>

queueVars == <<queue, running, wakeups, task, pacingUntil>>

\* ---------------------------------------------------------------- helpers
Max(a, b) == IF a >= b THEN a ELSE b

Range(s) == {s[i] : i \in 1..Len(s)}

\* An absent cache entry (memoryCache = null, no cache file).
NoCache == [token |-> NULL, cookie |-> NULL, timestamp |-> 0]

CacheEntry(t, c, ts) == [token |-> t, cookie |-> c, timestamp |-> ts]

NoHeaders == [xsrf |-> NULL, cookie |-> NULL]

IdleOp == [pc |-> "idle", kind |-> "none", retryCount |-> 0,
           headers |-> NoHeaders, body |-> NULL, refreshes |-> 0]

\* A call that has settled.
DoneOp == [IdleOp EXCEPT !.pc = "done"]

\* The promise of the calls ps settles with code: "OK" or an error code.
Settled(ps, code) == [ops |-> ps, result |-> code]

\* No message, and a message of the inbox list.
NoMessage == [from |-> NULL, messageID |-> NULL]

Message(f, id) == [from |-> f, messageID |-> id]

\* What waitForMessage() has settled with: kind is "pending" until then,
\* "absent" for null, "message" for a message, "error" for a rejection with
\* code.
PollResult(kind, msg, code) ==
  [kind |-> kind, from |-> msg.from, messageID |-> msg.messageID,
   code |-> code]

\* waitForMessage() has not been called. The fields after result record
\* the run for the properties: the time of the call, the listMessages()
\* calls made, the list the latest one returned and when, whether a
\* returned message passed the filter, whether maxAttempts was defaulted,
\* and the time waitForMessage() settled.
IdlePoll ==
  [pc |-> "idle", expectedFrom |-> NULL, timeoutMs |-> 0, pollInterval |-> 0,
   maxAttempts |-> 0, deadline |-> 0, attempt |-> 0, due |-> 0,
   result |-> PollResult("pending", NoMessage, "none"),
   start |-> 0, calls |-> 0, lastList |-> <<>>, lastDone |-> 0,
   seen |-> FALSE, defaulted |-> FALSE, returnedAt |-> 0]

\* ------------------------------------------------------- credential store
\* Variant of CacheValid: the expiry instant itself still counts as valid.
CacheValidLate(now, ts) == now <= ts + TOKEN_EXPIRY_MS

\* Date.now() < timestamp + TOKEN_EXPIRY_MS
CacheValid(now, ts) == now < ts + TOKEN_EXPIRY_MS

loadCachedToken ==
  IF ~tokenCachePath THEN NoCache
  ELSE IF file = NoCache THEN NoCache
  ELSE IF CacheValid(clock, file.timestamp)
       THEN CacheEntry(file.token, file.cookie, 0)
       ELSE NoCache

saveCachedToken(t, c) ==
  IF ~tokenCachePath THEN file ELSE CacheEntry(t, c, clock)

\* The file after clearTokenCache()'s unlinkSync.
UnlinkedFile == IF tokenCachePath THEN NoCache ELSE file

getState == [email |-> email,
             hasCredentials |-> (token # NULL /\ cookie # NULL)]

\* Variant of EnsureSource: without the test of the held pair.
EnsureSourceNoHeld ==
  IF memoryCache # NoCache /\ CacheValid(clock, memoryCache.timestamp)
    THEN "memory"
  ELSE IF loadCachedToken # NoCache THEN "file"
  ELSE IF tokenFetchPromise # NULL THEN "pending"
  ELSE "fresh"

\* Variant of EnsureSource: without the test of tokenFetchPromise.
EnsureSourceNoShare ==
  IF token # NULL /\ cookie # NULL THEN "held"
  ELSE IF memoryCache # NoCache /\ CacheValid(clock, memoryCache.timestamp)
    THEN "memory"
  ELSE IF loadCachedToken # NoCache THEN "file"
  ELSE "fresh"

\* Where ensureCredentials() takes the credentials from.
EnsureSource ==
  IF token # NULL /\ cookie # NULL THEN "held"
  ELSE IF memoryCache # NoCache /\ CacheValid(clock, memoryCache.timestamp)
    THEN "memory"
  ELSE IF loadCachedToken # NoCache THEN "file"
  ELSE IF tokenFetchPromise # NULL THEN "pending"
  ELSE "fresh"

\* ---------------------------------------------------------- request queue
\* Variant of CanStart: the cap compared with > instead of >=.
CanStartOverCap(q, r) == ~(r > maxConcurrent \/ Len(q) = 0)

\* process(): the guard of its first line, negated.
CanStart(q, r) == ~(r >= maxConcurrent \/ Len(q) = 0)

\* Variant of process: the entry pushed last is taken.
processLast(q, r) ==
  IF CanStart(q, r)
    THEN [queue |-> SubSeq(q, 1, Len(q) - 1), running |-> r + 1,
          started |-> {q[Len(q)]}]
    ELSE [queue |-> q, running |-> r, started |-> {}]

\* Variant of process: the entry stays in the queue.
processNoShift(q, r) ==
  IF CanStart(q, r)
    THEN [queue |-> q, running |-> r + 1, started |-> {Head(q)}]
    ELSE [queue |-> q, running |-> r, started |-> {}]

\* process() up to the call of fn: the queue, the counter and the task
\* whose fn it starts (none: the empty set).
process(q, r) ==
  IF CanStart(q, r)
    THEN [queue |-> Tail(q), running |-> r + 1, started |-> {Head(q)}]
    ELSE [queue |-> q, running |-> r, started |-> {}]

\* Variant of ScheduleWake: process() is not called again.
ScheduleWakeNever(w, now) == w

\* The finally block of process() after running--: the delay(delayMs)
\* timer at whose end process() runs again.
ScheduleWake(w, now) == Append(w, now + delayMs)

\* add(fn): push, then process().
add(q, r, t) == process(Append(q, t), r)

\* add() called for each element of ts in turn.
RECURSIVE addAll(_, _, _)
addAll(q, r, ts) ==
  IF ts = <<>> THEN [queue |-> q, running |-> r, started |-> {}]
  ELSE LET first == add(q, r, Head(ts))
           rest == addAll(first.queue, first.running, Tail(ts))
       IN [queue |-> rest.queue, running |-> rest.running,
           started |-> first.started \cup rest.started]

\* ------------------------------------------------------------ token acquirer
AcqOutcomes == {"ok", "httpError", "noSetCookie", "noXsrf", "netError"}

\* How fetchTokenFresh() settles for each outcome of its GET: it resolves
\* with a credentials pair, throws TmailError TOKEN_FAILED, or lets the
\* transport error of fetch() through.
\* Variant of fetchTokenFresh: a rejected fetch() is wrapped as TOKEN_FAILED.
fetchTokenFreshWrapped(outcome) ==
  CASE outcome = "ok" -> "ok"
    [] outcome \in {"httpError", "noSetCookie", "noXsrf", "netError"} ->
         "TOKEN_FAILED"

fetchTokenFresh(outcome) ==
  CASE outcome = "ok" -> "ok"
    [] outcome \in {"httpError", "noSetCookie", "noXsrf"} -> "TOKEN_FAILED"
    [] outcome = "netError" -> "RAW_ERROR"

\* The credentials of a successful acquisition response: the service never
\* issues the session the client holds again.
Issue(held) == CHOOSE c \in FreshCreds : c # held

\* Variant of PromiseAfterSettle: cleared on success only.
PromiseAfterSettleKeepFailed(code) ==
  IF code = "ok" THEN NULL ELSE tokenFetchPromise

\* tokenFetchPromise after the finally block of ensureCredentials().
PromiseAfterSettle(code) == NULL

\* ------------------------------------------------------ operations, common
\* fn of a public operation starts: it builds headers and body from the
\* credentials and the inbox identity of that moment and calls makeRequest.
StartFn(o, tk, ck, em) ==
  [o EXCEPT !.pc = "http",
            !.headers = [xsrf |-> tk, cookie |-> ck],
            !.body = IF o.kind = "generateEmail" THEN NULL ELSE em,
            !.retryCount = 0]

\* The calls ps (in this order) return from ensureCredentials() and submit
\* their fn with queue.add(); base is op with this turn's other updates.
Submit(ps, base, tk, ck, em) ==
  LET r == addAll(queue, running, ps)
  IN /\ queue' = r.queue
     /\ running' = r.running
     /\ op' = [p \in Ops |->
                 IF p \in r.started THEN StartFn(base[p], tk, ck, em)
                 ELSE IF p \in Range(ps) THEN [base[p] EXCEPT !.pc = "queued"]
                 ELSE base[p]]
     /\ UNCHANGED settled

\* fn of call p settles with code: resolve/reject, then the finally block of
\* process() up to its delay.
Finish(p, code) ==
  /\ op' = [op EXCEPT ![p] = DoneOp]
  /\ settled' = Settled({p}, code)
  /\ running' = running - 1
  /\ wakeups' = ScheduleWake(wakeups, clock)
  /\ pacingUntil' = clock + delayMs
  /\ UNCHANGED queue

\* A call fails before it reaches the queue.
Fail(p, code) ==
  /\ op' = [op EXCEPT ![p] = DoneOp]
  /\ settled' = Settled({p}, code)
  /\ UNCHANGED <<queue, running, wakeups, pacingUntil>>

\* ---------------------------------------------------------- createClient
StartTime == TOKEN_EXPIRY_MS + 1

\* The cache files an earlier run can have left: none, or an entry written
\* TOKEN_EXPIRY_MS + 1, TOKEN_EXPIRY_MS or TOKEN_EXPIRY_MS - 1 milliseconds
\* before StartTime.
InitFiles ==
  {NoCache} \cup {CacheEntry(FileCred, FileCred, ts) : ts \in {0, 1, 2}}

\* The configurations: pre-supplied token and cookie in every combination
\* without a cache file, or a cache file path and no pre-supplied value.
InitOptions ==
  {[tokenCachePath |-> FALSE, token |-> t, cookie |-> c, file |-> NoCache] :
     t \in {NULL, OptionCred}, c \in {NULL, OptionCred}}
  \cup {[tokenCachePath |-> TRUE, token |-> NULL, cookie |-> NULL, file |-> f] :
          f \in InitFiles}

InitQueueVars ==
  /\ queue = <<>>
  /\ running = 0
  /\ wakeups = <<>>
  /\ pacingUntil = 0
  /\ ticks = 0
  /\ task = [t \in Tasks |-> "new"]

Init ==
  /\ clock = StartTime
  /\ \E options \in InitOptions :
       /\ tokenCachePath = options.tokenCachePath
       /\ file = options.file
       /\ token = options.token
       /\ cookie = options.cookie
  /\ email = NULL
  /\ memoryCache = NoCache
  /\ tokenFetchPromise = NULL
  /\ waiters = <<>>
  /\ op = [p \in Ops |-> IdleOp]
  /\ clearedSinceUse = FALSE
  /\ settled = Settled({}, "none")
  /\ poll = IdlePoll
  /\ InitQueueVars

\* ------------------------------------------------------- public operations
Kinds == {"generateEmail", "listMessages", "getMessageBody"}

MessageIDs == {NULL, 1}

\* Variant of ArgumentError: listMessages() does not test email.
ArgumentErrorListUnchecked(k, messageID) ==
  IF k = "getMessageBody" /\ email = NULL THEN "EMAIL_NOT_SET"
  ELSE IF k = "getMessageBody" /\ messageID = NULL THEN "MESSAGE_ID_NOT_SET"
  ELSE "none"

\* The argument checks made before ensureCredentials().
ArgumentError(k, messageID) ==
  IF k \in {"listMessages", "getMessageBody"} /\ email = NULL
    THEN "EMAIL_NOT_SET"
  ELSE IF k = "getMessageBody" /\ messageID = NULL THEN "MESSAGE_ID_NOT_SET"
  ELSE "none"

\* generateEmail(), listMessages() or getMessageBody(messageID) is called:
\* the argument checks, ensureCredentials() up to its return or its await,
\* and queue.add() when it returned. The calls are numbered in the order
\* in which they are made.
Call(p, k, messageID) ==
  /\ op[p].pc = "idle"
  /\ \A q \in 1..(p - 1) : op[q].pc # "idle"
  /\ clearedSinceUse' = FALSE
  /\ UNCHANGED <<clock, ticks, tokenCachePath, file, email, task, poll>>
  /\ IF ArgumentError(k, messageID) # "none"
       THEN /\ Fail(p, ArgumentError(k, messageID))
            /\ UNCHANGED <<token, cookie, memoryCache, tokenFetchPromise,
                           waiters>>
       ELSE LET src == EnsureSource
                base == [op EXCEPT ![p].kind = k]
            IN CASE src = "held" ->
                      /\ Submit(<<p>>, base, token, cookie, email)
                      /\ UNCHANGED <<token, cookie, memoryCache,
                                     tokenFetchPromise, waiters, wakeups,
                                     pacingUntil>>
                 [] src = "memory" ->
                      /\ token' = memoryCache.token
                      /\ cookie' = memoryCache.cookie
                      /\ Submit(<<p>>, base, token', cookie', email)
                      /\ UNCHANGED <<memoryCache, tokenFetchPromise, waiters,
                                     wakeups, pacingUntil>>
                 [] src = "file" ->
                      /\ token' = loadCachedToken.token
                      /\ cookie' = loadCachedToken.cookie
                      /\ memoryCache' = CacheEntry(loadCachedToken.token,
                                                   loadCachedToken.cookie, clock)
                      /\ Submit(<<p>>, base, token', cookie', email)
                      /\ UNCHANGED <<tokenFetchPromise, waiters, wakeups,
                                     pacingUntil>>
                 [] src = "pending" ->
                      \* await tokenFetchPromise
                      /\ op' = [base EXCEPT ![p].pc = "ensureWait"]
                      /\ UNCHANGED settled
                      /\ waiters' = Append(waiters, p)
                      /\ UNCHANGED <<token, cookie, memoryCache,
                                     tokenFetchPromise, queue, running,
                                     wakeups, pacingUntil>>
                 [] src = "fresh" ->
                      \* tokenFetchPromise = fetchTokenFresh(): the GET is sent
                      /\ op' = [base EXCEPT ![p].pc = "ensureFetch"]
                      /\ UNCHANGED settled
                      /\ tokenFetchPromise' = p
                      /\ UNCHANGED <<token, cookie, memoryCache, waiters,
                                     queue, running, wakeups, pacingUntil>>

\* The caller calls listMessages() or getMessageBody(messageID) and then
\* reset() before it yields:
\* ensureCredentials() returns the held credentials, and the code after
\* "await ensureCredentials()", queue.add() and fn, runs once the caller's
\* synchronous code, reset() included, has finished.
CallThenReset(p, k, messageID) ==
  /\ op[p].pc = "idle"
  /\ \A q \in 1..(p - 1) : op[q].pc # "idle"
  /\ email # NULL
  /\ k \in {"listMessages", "getMessageBody"}
  /\ ArgumentError(k, messageID) = "none"
  /\ EnsureSource = "held"
  /\ clearedSinceUse' = FALSE
  /\ email' = NULL
  /\ Submit(<<p>>, [op EXCEPT ![p].kind = k], token, cookie, email')
  /\ UNCHANGED <<clock, ticks, tokenCachePath, file, token, cookie,
                 memoryCache, tokenFetchPromise, waiters, wakeups,
                 pacingUntil, task, poll>>

\* The acquisition GET started by ensureCredentials() in call p settles:
\* the continuation of p, then those of the calls awaiting the same promise.
EnsureSettle(p, outcome) ==
  /\ op[p].pc = "ensureFetch"
  /\ tokenFetchPromise' = PromiseAfterSettle(fetchTokenFresh(outcome))
  /\ waiters' = <<>>
  /\ UNCHANGED <<clock, ticks, tokenCachePath, email, task, poll, clearedSinceUse>>
  /\ IF fetchTokenFresh(outcome) = "ok"
       THEN /\ token' = Issue(token)
            /\ cookie' = Issue(token)
            /\ memoryCache' = CacheEntry(token', cookie', clock)
            /\ file' = saveCachedToken(token', cookie')
            /\ Submit(<<p>> \o waiters, op, token', cookie', email)
            /\ UNCHANGED <<wakeups, pacingUntil>>
       ELSE /\ op' = [q \in Ops |->
                        IF q = p \/ q \in Range(waiters)
                          THEN DoneOp
                          ELSE op[q]]
            /\ settled' = Settled({p} \cup Range(waiters),
                                  fetchTokenFresh(outcome))
            /\ UNCHANGED <<token, cookie, memoryCache, file, queue, running,
                           wakeups, pacingUntil>>

\* clearTokenCache() called by the user of the client.
ClearTokenCache ==
  /\ memoryCache' = NoCache
  /\ file' = UnlinkedFile
  /\ clearedSinceUse' = (token # NULL /\ cookie # NULL)
  /\ \/ memoryCache # NoCache
     \/ file # UnlinkedFile
     \/ clearedSinceUse # (token # NULL /\ cookie # NULL)
  /\ UNCHANGED <<clock, ticks, tokenCachePath, token, cookie, email,
                 tokenFetchPromise, waiters, queue, running, wakeups, op, task, poll,
                 settled, pacingUntil>>

\* reset() called by the user of the client.
Reset ==
  /\ email # NULL
  /\ email' = NULL
  /\ UNCHANGED <<clock, ticks, tokenCachePath, file, token, cookie,
                 memoryCache, tokenFetchPromise, waiters, queue, running,
                 wakeups, op, task, poll, settled, clearedSinceUse, pacingUntil>>

\* ------------------------------------------------ resilient request executor
Statuses == {200, 403, 419, 500}

\* The addresses the service hands out. The client stores an address and
\* sends it back, and never compares two of them: one value stands for all.
Addresses == {1}

\* The responses of the service: a status and, for status 200, a body that
\* parses as JSON or not and the address in its email array (NULL: none).
Responses ==
  {[status |-> st, parses |-> FALSE, email |-> NULL] : st \in Statuses}
    \cup {[status |-> 200, parses |-> TRUE, email |-> e] :
             e \in {NULL} \cup Addresses}

\* Variant of ResponseBranch: every 403 is refreshed for.
ResponseBranchRefreshAgain(status, retryCount) ==
  IF status = 403 THEN "refresh"
  ELSE IF status = 419 THEN "INVALID_CREDENTIALS"
  ELSE IF status # 200 THEN "HTTP_ERROR"
  ELSE "ok"

\* Variant of ResponseBranch: 419 is refreshed for like 403.
ResponseBranchRefresh419(status, retryCount) ==
  IF status \in {403, 419} /\ retryCount = 0 THEN "refresh"
  ELSE IF status = 419 THEN "INVALID_CREDENTIALS"
  ELSE IF status # 200 THEN "HTTP_ERROR"
  ELSE "ok"

\* The branch makeRequest() takes on a response.
ResponseBranch(status, retryCount) ==
  IF status = 403 /\ retryCount = 0 THEN "refresh"
  ELSE IF status = 419 THEN "INVALID_CREDENTIALS"
  ELSE IF status # 200 THEN "HTTP_ERROR"
  ELSE "ok"

\* What fn makes of the response makeRequest() returned.
BodyResult(k, resp) ==
  CASE k = "generateEmail" ->
         IF ~resp.parses THEN "RAW_ERROR"
         ELSE IF resp.email = NULL THEN "INVALID_RESPONSE"
         ELSE "ok"
    [] k = "listMessages" -> IF ~resp.parses THEN "RAW_ERROR" ELSE "ok"
    [] k = "getMessageBody" -> "ok"

\* Variant of RetryHeaders: the headers are not rewritten.
RetryHeadersStale(h, tk, ck) == h

\* The headers of the retry that follows refreshCredentials().
RetryHeaders(h, tk, ck) ==
  [xsrf |-> IF h.xsrf # NULL THEN tk ELSE h.xsrf,
   cookie |-> IF h.cookie # NULL THEN ck ELSE h.cookie]

\* Variant of RetriesRemain: one retry more.
RetriesRemainOneMore(retryCount) == retryCount <= maxRetries

\* retryCount < maxRetries
RetriesRemain(retryCount) == retryCount < maxRetries

\* The catch block of makeRequest() on an error that is not a TmailError.
TransportFailure(p) ==
  IF RetriesRemain(op[p].retryCount)
    THEN /\ op' = [op EXCEPT ![p].pc = "retryWait"]
         /\ UNCHANGED <<settled, queue, running, wakeups, pacingUntil>>
    ELSE Finish(p, "REQUEST_FAILED")

\* The response of the request of call p arrives.
HttpSettle(p, resp) ==
  /\ op[p].pc = "http"
  /\ UNCHANGED <<clock, ticks, tokenCachePath, token, cookie,
                 tokenFetchPromise, waiters, task, poll, clearedSinceUse>>
  /\ LET branch == ResponseBranch(resp.status, op[p].retryCount)
     IN CASE branch = "refresh" ->
               \* refreshCredentials() up to its await
               /\ memoryCache' = NoCache
               /\ file' = UnlinkedFile
               /\ op' = [op EXCEPT ![p].pc = "refreshFetch",
                                   ![p].refreshes = @ + 1]
               /\ UNCHANGED <<email, settled, queue, running, wakeups,
                              pacingUntil>>
          [] branch \in {"INVALID_CREDENTIALS", "HTTP_ERROR"} ->
               /\ Finish(p, branch)
               /\ UNCHANGED <<email, memoryCache, file>>
          [] branch = "ok" ->
               /\ Finish(p, IF BodyResult(op[p].kind, resp) = "ok"
                               THEN "OK" ELSE BodyResult(op[p].kind, resp))
               /\ email' = IF op[p].kind = "generateEmail"
                                /\ BodyResult(op[p].kind, resp) = "ok"
                             THEN resp.email ELSE email
               /\ UNCHANGED <<memoryCache, file>>

\* fetch() of the request of call p rejects: timeout or connection error.
HttpFail(p) ==
  /\ op[p].pc = "http"
  /\ TransportFailure(p)
  /\ UNCHANGED <<clock, ticks, clientVars_noOp, task, poll>>

\* The acquisition GET of refreshCredentials() in call p settles.
RefreshSettle(p, outcome) ==
  /\ op[p].pc = "refreshFetch"
  /\ UNCHANGED <<clock, ticks, tokenCachePath, email, tokenFetchPromise,
                 waiters, task, poll, clearedSinceUse>>
  /\ CASE fetchTokenFresh(outcome) = "ok" ->
            /\ token' = Issue(token)
            /\ cookie' = Issue(token)
            /\ memoryCache' = CacheEntry(token', cookie', clock)
            /\ file' = saveCachedToken(token', cookie')
            /\ op' = [op EXCEPT
                        ![p].pc = "http",
                        ![p].headers = RetryHeaders(@, token', cookie'),
                        ![p].retryCount = @ + 1]
            /\ UNCHANGED <<settled, queue, running, wakeups, pacingUntil>>
       [] fetchTokenFresh(outcome) = "TOKEN_FAILED" ->
            /\ Finish(p, "TOKEN_FAILED")
            /\ UNCHANGED <<token, cookie, memoryCache, file>>
       [] fetchTokenFresh(outcome) = "RAW_ERROR" ->
            /\ TransportFailure(p)
            /\ UNCHANGED <<token, cookie, memoryCache, file>>

\* delay(retryDelay) of call p elapses: makeRequest(url, opts, retryCount + 1).
RetryFire(p) ==
  /\ op[p].pc = "retryWait"
  /\ op' = [op EXCEPT ![p].pc = "http", ![p].retryCount = @ + 1]
  /\ UNCHANGED <<clock, ticks, clientVars_noOp, task, poll, settled, queue, running,
                 wakeups, pacingUntil>>

\* delay(delayMs) of a finished process() elapses: process() again.
Wake ==
  /\ wakeups # <<>>
  /\ wakeups' = Tail(wakeups)
  /\ LET r == process(queue, running)
     IN /\ queue' = r.queue
        /\ running' = r.running
        /\ op' = [p \in Ops |-> IF p \in r.started
                                  THEN StartFn(op[p], token, cookie, email)
                                  ELSE op[p]]
  /\ UNCHANGED <<clock, ticks, clientVars_noOp, task, poll, settled, pacingUntil>>

Next ==
  \/ \E p \in Ops, k \in Kinds, m \in MessageIDs : Call(p, k, m)
  \/ \E p \in Ops, k \in Kinds, m \in MessageIDs : CallThenReset(p, k, m)
  \/ \E p \in Ops, o \in AcqOutcomes : EnsureSettle(p, o)
  \/ \E p \in Ops, r \in Responses : HttpSettle(p, r)
  \/ \E p \in Ops : HttpFail(p)
  \/ \E p \in Ops, o \in AcqOutcomes : RefreshSettle(p, o)
  \/ \E p \in Ops : RetryFire(p)
  \/ Wake
  \/ ClearTokenCache
  \/ Reset

Spec == Init /\ [][Next]_vars

\* ------------------------------------------------ RequestQueue on its own
\* A task is "new" until add(), then "queued", "running" while its fn has
\* started and not settled, then "resolved" or "rejected".
InitQueue ==
  /\ clock = 0
  /\ tokenCachePath = FALSE
  /\ file = NoCache
  /\ token = NULL
  /\ cookie = NULL
  /\ email = NULL
  /\ memoryCache = NoCache
  /\ tokenFetchPromise = NULL
  /\ waiters = <<>>
  /\ op = [p \in Ops |-> IdleOp]
  /\ clearedSinceUse = FALSE
  /\ settled = Settled({}, "none")
  /\ poll = IdlePoll
  /\ InitQueueVars

\* add(fn) is called for task t. The tasks are numbered in the order in
\* which they are submitted.
QAdd(t) ==
  /\ task[t] = "new"
  /\ \A u \in 1..(t - 1) : task[u] # "new"
  /\ LET r == add(queue, running, t)
     IN /\ queue' = r.queue
        /\ running' = r.running
        /\ task' = [u \in Tasks |-> IF u \in r.started THEN "running"
                                     ELSE IF u = t THEN "queued"
                                     ELSE task[u]]
  /\ UNCHANGED <<clock, ticks, clientVars, poll, wakeups, pacingUntil>>

\* fn of task t settles: resolve(result) or reject(e), then the finally
\* block of process() up to its delay.
QSettle(t, ok) ==
  /\ task[t] = "running"
  /\ task' = [task EXCEPT ![t] = IF ok THEN "resolved" ELSE "rejected"]
  /\ running' = running - 1
  /\ wakeups' = ScheduleWake(wakeups, clock)
  /\ pacingUntil' = clock + delayMs
  /\ UNCHANGED <<clock, ticks, clientVars, poll, queue>>

\* The oldest delay(delayMs) timer fires, once the clock has reached its
\* due time: process() again.
QWake ==
  /\ wakeups # <<>>
  /\ clock' = Max(clock, Head(wakeups))
  /\ wakeups' = Tail(wakeups)
  /\ LET r == process(queue, running)
     IN /\ queue' = r.queue
        /\ running' = r.running
        /\ task' = [u \in Tasks |-> IF u \in r.started THEN "running"
                                     ELSE task[u]]
  /\ UNCHANGED <<ticks, clientVars, poll, pacingUntil>>

\* One millisecond passes.
Tick ==
  /\ ticks < MaxTicks
  /\ ticks' = ticks + 1
  /\ clock' = clock + 1
  /\ UNCHANGED <<clientVars, poll, task, queue, running, wakeups, pacingUntil>>

NextQueue ==
  \/ \E t \in Tasks : QAdd(t)
  \/ \E t \in Tasks, ok \in BOOLEAN : QSettle(t, ok)
  \/ QWake
  \/ Tick

SpecQueue == InitQueue /\ [][NextQueue]_vars

\* SpecQueue where every started fn settles and every timer fires.
SpecQueueFair ==
  /\ SpecQueue
  /\ WF_vars(QWake)
  /\ \A t \in Tasks : WF_vars(\E ok \in BOOLEAN : QSettle(t, ok))

\* ------------------------------------------- waitForMessage() on its own
\* listMessages() is the environment here: each call returns a list or
\* fails after a latency.
Undefined == -1                        \* an option the caller left out

\* The timeout and pollInterval options of the calls.
PollTimings ==
  {<<Undefined, Undefined>>, <<1000, 100>>, <<1000, 300>>, <<100, 300>>}

PollOptions ==
  {[expectedFrom |-> e, timeout |-> t[1], pollInterval |-> t[2],
    maxAttempts |-> m] :
      e \in {NULL, 1, 3}, t \in PollTimings, m \in {Undefined, 0, 1, 2}}

\* The lists a listMessages() call may return.
Lists ==
  {<<>>,
   <<Message(2, 1)>>,
   <<Message(2, 1), Message(1, 2), Message(1, 3)>>}

\* The codes a listMessages() call may fail with.
ListFailures == {"EMAIL_NOT_SET", "HTTP_ERROR", "REQUEST_FAILED"}

\* Milliseconds between a listMessages() call and its settlement.
Latencies == {0, 40, 400}

\* Variant of DefaultMaxAttempts: no minimum of one attempt.
DefaultMaxAttemptsNoClamp(timeoutMs, pollInterval) ==
  timeoutMs \div pollInterval

\* Math.max(1, Math.floor(timeoutMs / pollInterval))
DefaultMaxAttempts(timeoutMs, pollInterval) ==
  Max(1, timeoutMs \div pollInterval)

\* Variant of Matches: the filter is ignored.
MatchesAny(msg, expectedFrom) == TRUE

\* !expectedFrom || msg.from === expectedFrom
Matches(msg, expectedFrom) == expectedFrom = NULL \/ msg.from = expectedFrom

\* The inner loop over the list: the first message that passes the filter.
RECURSIVE FirstMatch(_, _)
FirstMatch(list, expectedFrom) ==
  IF list = <<>> THEN NoMessage
  ELSE IF Matches(Head(list), expectedFrom) THEN Head(list)
  ELSE FirstMatch(Tail(list), expectedFrom)

\* Variant of SleepDue: the timer is due at once.
SleepDueNow(now, pollInterval) == now

\* delay(pollInterval): when the timer is due.
SleepDue(now, pollInterval) == now + pollInterval

\* waitForMessage() returns or throws at time now.
PollReturn(base, result, now) ==
  [base EXCEPT !.pc = "done", !.result = result, !.returnedAt = now]

\* The head of the attempt loop: the next listMessages() call, or return null
\* when attempt > maxAttempts.
PollAttempt(base, attempt, now) ==
  IF attempt <= base.maxAttempts
    THEN [base EXCEPT !.pc = "listing", !.attempt = attempt,
                      !.calls = @ + 1]
    ELSE PollReturn([base EXCEPT !.attempt = attempt],
                    PollResult("absent", NoMessage, "none"), now)

\* waitForMessage(opts) is called: up to the first await.
WaitForMessage(opts) ==
  /\ poll.pc = "idle"
  /\ LET timeoutMs == IF opts.timeout = Undefined THEN timeout
                      ELSE opts.timeout
         pollInterval == IF opts.pollInterval = Undefined THEN retryDelay
                         ELSE opts.pollInterval
         maxAttempts == IF opts.maxAttempts = Undefined
                          THEN DefaultMaxAttempts(timeoutMs, pollInterval)
                          ELSE opts.maxAttempts
     IN poll' = PollAttempt(
                  [poll EXCEPT !.expectedFrom = opts.expectedFrom,
                               !.timeoutMs = timeoutMs,
                               !.pollInterval = pollInterval,
                               !.maxAttempts = maxAttempts,
                               !.deadline = clock + timeoutMs,
                               !.start = clock,
                               !.defaulted = opts.maxAttempts = Undefined],
                  1, clock)
  /\ UNCHANGED <<clock, ticks, clientVars, queueVars>>

\* The listMessages() call resolves with list, latency ms after the latest
\* step: the scan of the list, the deadline test and delay(pollInterval).
ListReturn(list, latency) ==
  /\ poll.pc = "listing"
  /\ clock' = clock + latency
  /\ LET found == FirstMatch(list, poll.expectedFrom)
         base == [poll EXCEPT
                    !.lastList = list,
                    !.lastDone = clock',
                    !.seen = \E i \in 1..Len(list) :
                               \/ poll.expectedFrom = NULL
                               \/ list[i].from = poll.expectedFrom]
     IN poll' = IF found # NoMessage
                  THEN PollReturn(base, PollResult("message", found, "none"),
                                  clock')
                ELSE IF clock' >= poll.deadline
                  THEN PollReturn(base,
                                  PollResult("absent", NoMessage, "none"),
                                  clock')
                ELSE [base EXCEPT
                        !.pc = "sleeping",
                        !.due = SleepDue(clock', poll.pollInterval)]
  /\ UNCHANGED <<ticks, clientVars, queueVars>>

\* The listMessages() call rejects with code: waitForMessage() rejects with
\* the same error.
ListFail(code, latency) ==
  /\ poll.pc = "listing"
  /\ clock' = clock + latency
  /\ poll' = PollReturn([poll EXCEPT !.lastDone = clock'],
                        PollResult("error", NoMessage, code), clock')
  /\ UNCHANGED <<ticks, clientVars, queueVars>>

\* delay(pollInterval) elapses, once the clock has reached its due time:
\* attempt++ and the loop test.
PollWake ==
  /\ poll.pc = "sleeping"
  /\ clock' = Max(clock, poll.due)
  /\ poll' = PollAttempt(poll, poll.attempt + 1, clock')
  /\ UNCHANGED <<ticks, clientVars, queueVars>>

NextPoll ==
  \/ \E opts \in PollOptions : WaitForMessage(opts)
  \/ \E list \in Lists, latency \in Latencies : ListReturn(list, latency)
  \/ \E code \in ListFailures, latency \in Latencies : ListFail(code, latency)
  \/ PollWake
  \/ Tick

SpecPoll == InitQueue /\ [][NextPoll]_vars

\* ======================================================== properties, Spec
\* The calls whose acquisition GET (fetchTokenFresh) is in flight.
AcqInFlight == {p \in Ops : op[p].pc \in {"ensureFetch", "refreshFetch"}}

\* The calls suspended inside ensureCredentials().
InEnsure == {p \in Ops : op[p].pc \in {"ensureFetch", "ensureWait"}}

\* Call p reaches ensureCredentials() in this step (its argument checks
\* passed).
ReachesEnsure(p) == op[p].pc = "idle" /\ op'[p].pc \notin {"idle", "done"}

\* ensureCredentials() returns normally to call p in this step.
EnsureReturns(p) ==
  /\ op[p].pc \in {"idle", "ensureFetch", "ensureWait"}
  /\ op'[p].pc \in {"queued", "http"}

\* C1: among the calls that are inside ensureCredentials() at the same
\* time, exactly one has sent an acquisition GET, it is the one
\* tokenFetchPromise belongs to, and all the others await that promise.
SingleFlightEnsure ==
  InEnsure # {} =>
    /\ Cardinality({p \in InEnsure : op[p].pc = "ensureFetch"}) = 1
    /\ tokenFetchPromise \in InEnsure
    /\ op[tokenFetchPromise].pc = "ensureFetch"
    /\ Range(waiters) = InEnsure \ {tokenFetchPromise}

\* One call has its acquisition GET in flight and another awaits it.
SingleFlightEnsureWitness ==
  \E p, q \in Ops : op[p].pc = "ensureFetch" /\ op[q].pc = "ensureWait"

\* C2: at most one acquisition GET is in flight, whether started by
\* ensureCredentials() or by refreshCredentials().
AtMostOneAcquisition == Cardinality(AcqInFlight) <= 1

\* C3: tokenFetchPromise is set only while its acquisition GET is pending,
\* so it is null once the GET has settled, with success or failure, and a
\* call only ever awaits a pending acquisition.
PromiseClearedOnSettle ==
  /\ tokenFetchPromise # NULL => op[tokenFetchPromise].pc = "ensureFetch"
  /\ \A p \in Ops : op[p].pc = "ensureWait" =>
        tokenFetchPromise # NULL /\ p \in Range(waiters)

\* An acquisition started by ensureCredentials() has failed and a later
\* call has started a new one.
PromiseClearedOnSettleWitness ==
  /\ settled.result \in {"TOKEN_FAILED", "RAW_ERROR"}
  /\ ~getState.hasCredentials
  /\ \E p \in Ops : op[p].pc = "ensureFetch" /\ tokenFetchPromise = p

\* C4: when ensureCredentials() returns normally the pair is held, a held
\* pair stays held, and a call made while the pair is held neither sends
\* an acquisition GET nor awaits one.
SecondEnsureNoNetwork ==
  [][/\ (\E p \in Ops : EnsureReturns(p)) => getState.hasCredentials'
     /\ getState.hasCredentials => getState.hasCredentials'
     /\ getState.hasCredentials =>
          \A p \in Ops : ReachesEnsure(p) =>
            /\ EnsureReturns(p)
            /\ AcqInFlight' = AcqInFlight
            /\ token' = token /\ cookie' = cookie]_vars

\* The first call took the credentials from the cache file and a second
\* call has passed ensureCredentials() with no acquisition made.
SecondEnsureNoNetworkWitness ==
  /\ token = FileCred
  /\ Cardinality({p \in Ops : /\ op[p].pc = "http"
                               /\ op[p].refreshes = 0
                               /\ op[p].headers.xsrf = FileCred}) >= 2

\* ensureCredentials() consults the cache file in this state.
FileConsulted ==
  /\ ~getState.hasCredentials
  /\ memoryCache = NoCache
  /\ tokenCachePath
  /\ file # NoCache

\* Call p takes its credentials from the cache file in this step.
FileHit(p) ==
  /\ EnsureReturns(p)
  /\ token' = file.token
  /\ cookie' = file.cookie
  /\ AcqInFlight' = AcqInFlight

\* Call p finds no usable cache entry in this step.
FileMiss(p) == op'[p].pc \in {"ensureFetch", "ensureWait"}

\* C5 as claimed: the entry is a hit up to file.timestamp + TOKEN_EXPIRY_MS
\* included and a miss after it.
ExpiryBoundaryInclusive ==
  [][\A p \in Ops : FileConsulted /\ ReachesEnsure(p) =>
       IF clock <= file.timestamp + TOKEN_EXPIRY_MS
         THEN FileHit(p) ELSE FileMiss(p)]_vars

\* C5 amended: the entry is a hit at every instant before
\* file.timestamp + TOKEN_EXPIRY_MS and a miss from that instant on.
ExpiryBoundaryExclusive ==
  [][\A p \in Ops : FileConsulted /\ ReachesEnsure(p) =>
       IF clock < file.timestamp + TOKEN_EXPIRY_MS
         THEN FileHit(p) ELSE FileMiss(p)]_vars

\* A call found the file entry expired exactly TOKEN_EXPIRY_MS after it was
\* written and has sent an acquisition GET.
ExpiryBoundaryWitness ==
  /\ tokenCachePath
  /\ file # NoCache
  /\ clock = file.timestamp + TOKEN_EXPIRY_MS
  /\ \E p \in Ops : op[p].pc = "ensureFetch"

\* C6: token and cookie are both populated or both unpopulated.
CredentialsPair == (token = NULL) <=> (cookie = NULL)

\* C7: the first call that reaches ensureCredentials() after a
\* clearTokenCache() made with credentials held sends an acquisition GET.
ClearForcesFresh ==
  [][\A p \in Ops : clearedSinceUse /\ ReachesEnsure(p) =>
       op'[p].pc = "ensureFetch" /\ p \in AcqInFlight']_vars

\* C10: a request is refreshed for at most once; a 403 on its first attempt
\* invalidates the caches and sends one acquisition GET; when that GET
\* succeeds the request is retried once, with retryCount 1 and with the
\* token and cookie the GET returned in its headers.
RefreshOnceOn403 ==
  [][\A p \in Ops : op'[p] # op[p] =>
       /\ op'[p].refreshes <= 1
       /\ \A r \in Responses :
            r.status = 403 /\ op[p].retryCount = 0 /\ HttpSettle(p, r) =>
              /\ op'[p].pc = "refreshFetch"
              /\ op'[p].refreshes = 1
              /\ memoryCache' = NoCache
              /\ file' = NoCache
              /\ AcqInFlight' = AcqInFlight \cup {p}
              /\ p \notin AcqInFlight
       /\ op[p].pc = "refreshFetch" /\ op'[p].pc = "http" =>
              /\ token' # token
              /\ memoryCache' = CacheEntry(token', cookie', clock)
              /\ op'[p].headers = [xsrf |-> token', cookie |-> cookie']
              /\ op'[p].retryCount = 1
              /\ op'[p].refreshes = 1]_vars

\* A request is being retried after its refresh, with the refreshed pair.
RefreshOnceOn403Witness ==
  \E p \in Ops : /\ op[p].pc = "http"
                  /\ op[p].refreshes = 1
                  /\ op[p].retryCount = 1
                  /\ op[p].headers = [xsrf |-> token, cookie |-> cookie]
                  /\ memoryCache.token = token

\* C11: a 403 on the attempt retried after a refresh starts no second
\* refresh, and the request is retried after delay(retryDelay) with its
\* counter incremented while retryCount < maxRetries.
Second403Retried ==
  [][\A p \in Ops : \A r \in Responses :
       r.status = 403 /\ op[p].refreshes = 1 /\ op[p].retryCount >= 1
         /\ HttpSettle(p, r) =>
           /\ op'[p].pc # "refreshFetch"
           /\ op[p].retryCount < maxRetries => op'[p].pc = "retryWait"]_vars

\* C11 as the code has it: a 403 on the attempt retried after a refresh
\* starts no second refresh and no retry, the request fails at once with
\* HTTP_ERROR; a transport failure of that attempt is retried after
\* delay(retryDelay) while retryCount < maxRetries.
Second403Fails ==
  [][\A p \in Ops :
       op'[p] # op[p] /\ op[p].refreshes = 1 /\ op[p].retryCount >= 1 =>
         /\ \A r \in Responses : r.status = 403 /\ HttpSettle(p, r) =>
              /\ op'[p] = DoneOp
              /\ settled' = Settled({p}, "HTTP_ERROR")
              /\ AcqInFlight' = AcqInFlight
              /\ UNCHANGED <<token, cookie, memoryCache, file>>
         /\ op[p].retryCount < maxRetries /\ HttpFail(p) =>
              /\ op'[p].pc = "retryWait"
              /\ op'[p].refreshes = 1
              /\ AcqInFlight' = AcqInFlight]_vars

\* The attempt retried after a refresh is awaiting its response, sent with
\* the refreshed credentials and with transient retries left.
Second403FailsWitness ==
  \E p \in Ops : /\ op[p].pc = "http"
                  /\ op[p].refreshes = 1
                  /\ op[p].retryCount \in 1..(maxRetries - 1)
                  /\ op[p].headers.xsrf \in FreshCreds
                  /\ op[p].headers.xsrf = token

\* C12: every request that receives a 403 and has not refreshed yet
\* refreshes the credentials, whatever its retryCount.
Every403Refreshed ==
  [][\A p \in Ops : \A r \in Responses :
       r.status = 403 /\ op[p].refreshes = 0 /\ HttpSettle(p, r) =>
         op'[p].pc = "refreshFetch" /\ op'[p].refreshes = 1]_vars

\* C13: using the transient retries does not use up the refresh retry: a
\* request that has made transient retries and no refresh still refreshes
\* the credentials on a 403.
BudgetsIndependent ==
  [][\A p \in Ops : op'[p] # op[p] /\ op[p].retryCount >= 1 =>
       \A r \in Responses :
         r.status = 403 /\ op[p].refreshes = 0 /\ HttpSettle(p, r) =>
           /\ op'[p].pc = "refreshFetch"
           /\ op'[p].retryCount = op[p].retryCount]_vars

\* C14: a 419 response on any attempt ends the request with
\* INVALID_CREDENTIALS: no refresh, no retry, no further HTTP call.
Fails419Immediately ==
  [][\A p \in Ops : op'[p] # op[p] =>
       /\ \A r \in Responses : r.status = 419 /\ HttpSettle(p, r) =>
            /\ op'[p] = DoneOp
            /\ settled' = Settled({p}, "INVALID_CREDENTIALS")
            /\ AcqInFlight' = AcqInFlight
            /\ UNCHANGED <<token, cookie, memoryCache, file, email>>
       /\ op[p].pc = "done" => op'[p].pc = "done"]_vars

\* A 419 has ended a request while credentials are held.
Fails419ImmediatelyWitness ==
  /\ settled.result = "INVALID_CREDENTIALS"
  /\ getState.hasCredentials
  /\ \E p \in settled.ops : op[p].pc = "done"

\* C15: a transport failure is retried, after delay(retryDelay), while
\* retryCount < maxRetries and starts no refresh; a request whose every
\* attempt failed so ends REQUEST_FAILED after maxRetries + 1 attempts; a
\* failure status other than 419 and other than 403 at retryCount 0 ends the
\* request HTTP_ERROR with no retry.
TransientRetryPolicy ==
  [][\A p \in Ops : op'[p] # op[p] =>
       /\ op[p].retryCount <= maxRetries
       /\ HttpFail(p) =>
            /\ AcqInFlight' = AcqInFlight
            /\ op'[p].refreshes = op[p].refreshes \/ op'[p] = DoneOp
            /\ IF op[p].retryCount < maxRetries
                 THEN op'[p] = [op[p] EXCEPT !.pc = "retryWait"]
                 ELSE /\ op'[p] = DoneOp
                      /\ settled' = Settled({p}, "REQUEST_FAILED")
                      /\ op[p].refreshes = 0 =>
                           op[p].retryCount + 1 = maxRetries + 1
       /\ op[p].pc = "retryWait" /\ op'[p].pc # "retryWait" =>
            /\ op'[p].pc = "http"
            /\ op'[p].retryCount = op[p].retryCount + 1
            /\ op'[p].headers = op[p].headers
       /\ op[p].pc = "http" /\ op'[p].pc = "http" =>
            op'[p].retryCount = op[p].retryCount
       /\ op[p].pc = "http" =>
            \A st \in Statuses \ {200, 419} :
              /\ ~(st = 403 /\ op[p].retryCount = 0)
              /\ HttpSettle(p, [status |-> st, parses |-> FALSE,
                                email |-> NULL])
              => /\ op'[p] = DoneOp
                 /\ settled' = Settled({p}, "HTTP_ERROR")
                 /\ AcqInFlight' = AcqInFlight]_vars

\* A request has failed at the transport on each of its attempts.
TransientRetryPolicyWitness ==
  /\ settled.result = "REQUEST_FAILED"
  /\ \E p \in settled.ops : op[p].pc = "done"

\* The kinds of the error taxonomy.
TaxonomyKinds ==
  {"TOKEN_FAILED", "INVALID_CREDENTIALS", "HTTP_ERROR", "REQUEST_FAILED",
   "INVALID_RESPONSE", "EMAIL_NOT_SET", "MESSAGE_ID_NOT_SET"}

\* C16: every public operation resolves or fails with a kind of the
\* taxonomy.
FailuresInTaxonomy ==
  settled.result \in {"none", "OK"} \cup TaxonomyKinds

\* C17: with no inbox identity, listMessages() and getMessageBody(id) fail
\* with EMAIL_NOT_SET in the call itself: no request is sent and the
\* credentials, the caches, the pending acquisition and the queue are left
\* as they were.
EmailNotSetNoEffect ==
  [][\A p \in Ops : email = NULL /\ op'[p] # op[p] =>
       \A k \in {"listMessages", "getMessageBody"} : \A m \in MessageIDs :
         Call(p, k, m) =>
           /\ settled' = Settled({p}, "EMAIL_NOT_SET")
           /\ op' = [op EXCEPT ![p] = DoneOp]
           /\ AcqInFlight' = AcqInFlight
           /\ UNCHANGED <<token, cookie, email, memoryCache, file,
                          tokenFetchPromise, waiters, queue, running,
                          wakeups, pacingUntil>>]_vars

\* A call has failed with EMAIL_NOT_SET on a client that holds credentials
\* issued to an earlier call.
EmailNotSetNoEffectWitness ==
  /\ settled.result = "EMAIL_NOT_SET"
  /\ email = NULL
  /\ token \in FreshCreds
  /\ \E p \in settled.ops : op[p].pc = "done"

\* C24: a listMessages() or getMessageBody() request that is being sent
\* carries an inbox identity, never null.
SentWithIdentity ==
  \A p \in Ops :
    op[p].pc = "http" /\ op[p].kind \in {"listMessages", "getMessageBody"} =>
      op[p].body # NULL

\* C25: when the acquisition of refreshCredentials() fails, token and
\* cookie keep their values and the caches, cleared when the refresh
\* started, are not written; a response the acquirer rejects ends the
\* request with TOKEN_FAILED; a rejected fetch() is a transient failure of
\* the request, retried after delay(retryDelay) with the headers it had.
RefreshFailureKeepsCredentials ==
  [][\A p \in Ops : op'[p] # op[p] =>
       /\ op'[p].pc = "refreshFetch" =>
            /\ memoryCache' = NoCache /\ file' = NoCache
            /\ UNCHANGED <<token, cookie>>
       /\ \A o \in AcqOutcomes \ {"ok"} : RefreshSettle(p, o) =>
            /\ UNCHANGED <<token, cookie, memoryCache, file>>
            /\ AcqInFlight' = AcqInFlight \ {p}
            /\ IF o = "netError"
                 THEN /\ op'[p] = [op[p] EXCEPT !.pc = "retryWait"]
                      /\ UNCHANGED settled
                 ELSE /\ op'[p] = DoneOp
                      /\ settled' = Settled({p}, "TOKEN_FAILED")]_vars

\* The request whose refresh failed at the transport is sent again with the
\* headers of its first attempt, which are not the credentials held.
RefreshFailureKeepsCredentialsWitness ==
  \E p \in Ops : /\ op[p].pc = "http"
                  /\ op[p].refreshes = 1
                  /\ op[p].retryCount = 1
                  /\ op[p].headers.xsrf \notin FreshCreds
                  /\ memoryCache = NoCache
                  /\ token = op[p].headers.xsrf

\* =================================================== properties, SpecQueue
\* The tasks whose fn has started and has not settled.
RunningTasks == {t \in Tasks : task[t] = "running"}

\* C8: at most maxConcurrent tasks have started and not settled.
ConcurrencyCap ==
  /\ Cardinality(RunningTasks) <= maxConcurrent
  /\ running = Cardinality(RunningTasks)

\* The cap is reached while a task waits in the queue.
ConcurrencyCapWitness ==
  Cardinality(RunningTasks) = maxConcurrent /\ queue # <<>>

\* C9: no task starts before the pacing delay that follows the latest
\* settlement has elapsed.
PacingRespected ==
  [][\A t \in Tasks : task[t] # "running" /\ task'[t] = "running" =>
       clock' >= pacingUntil]_vars

\* The tasks whose fn has been started.
StartedTasks == {t \in Tasks : task[t] \in {"running", "resolved", "rejected"}}

\* C21: fn of a task is started no later than fn of any task submitted
\* after it, and the tasks wait in the queue in submission order.
FifoStart ==
  /\ \A a, b \in Tasks : a < b /\ b \in StartedTasks => a \in StartedTasks
  /\ \A i, j \in 1..Len(queue) : i < j => queue[i] < queue[j]

\* Two tasks waited in the queue at once and the earlier one has been
\* started while the later one still waits.
FifoStartWitness ==
  /\ Len(queue) = 1
  /\ task[queue[1]] = "queued"
  /\ queue[1] - 1 \in StartedTasks
  /\ Cardinality(StartedTasks) > maxConcurrent
  /\ running = maxConcurrent

\* C22: under SpecQueueFair every task submitted is eventually started:
\* whenever tasks wait, a later state has each of them started and the
\* queue empty; and in no state does a task wait with no fn running and no
\* delay(delayMs) timer pending.
QueueLive ==
  /\ (queue # <<>>) ~>
       (queue = <<>> /\ \A t \in Tasks : task[t] # "new" => t \in StartedTasks)
  /\ [](queue # <<>> => running > 0 \/ wakeups # <<>>)

\* A task waits while no fn runs: only a timer will start it.
QueueLiveWitness ==
  /\ queue # <<>>
  /\ running = 0
  /\ wakeups # <<>>

\* C23: a task goes once from the queue to running and once from running to
\* settled, resolved or rejected as its own fn ended; a task is in the queue
\* exactly while it waits, once; the settlement of a task, a rejection
\* included, changes no other task, frees its slot and leaves a timer
\* pending for process().
TaskOnce ==
  [][/\ \A t \in Tasks :
          /\ task'[t] # task[t] =>
               \/ task[t] = "new" /\ task'[t] \in {"queued", "running"}
               \/ task[t] = "queued" /\ task'[t] = "running"
               \/ task[t] = "running" /\ task'[t] \in {"resolved", "rejected"}
          /\ task'[t] = "queued" <=>
               Cardinality({i \in 1..Len(queue') : queue'[i] = t}) = 1
          /\ task'[t] # "queued" => t \notin Range(queue')
          /\ \A ok \in BOOLEAN : QSettle(t, ok) =>
               /\ task'[t] = IF ok THEN "resolved" ELSE "rejected"
               /\ \A u \in Tasks \ {t} : task'[u] = task[u]
               /\ running' = running - 1
               /\ queue' = queue
               /\ wakeups' # <<>>
     /\ running' = Cardinality({t \in Tasks : task'[t] = "running"})]_vars

\* A task was rejected and tasks submitted before and after it were run
\* and resolved.
TaskOnceWitness ==
  \E t \in Tasks : /\ task[t] = "rejected"
                   /\ t > 1 /\ task[t - 1] = "resolved"
                   /\ t < MaxTasks /\ task[t + 1] = "resolved"
                   /\ task[MaxTasks] = "resolved"
                   /\ running = 0

\* ==================================================== properties, SpecPoll
\* C18: waitForMessage() settles with null exactly when no list it got held
\* a message passing the filter, no listMessages() call failed, and the
\* attempts or the deadline ran out; with a message only when the latest
\* list holds it and it is the first of that list to pass the filter (the
\* first message when there is no filter); with the error of the
\* listMessages() call that failed.
PollSettles ==
  LET r == poll.result
      list == poll.lastList
      passes(m) == poll.expectedFrom = NULL \/ m.from = poll.expectedFrom
  IN /\ poll.pc # "done" => r.kind = "pending" /\ ~poll.seen
     /\ poll.pc = "done" =>
          /\ r.kind \in {"absent", "message", "error"}
          /\ r.kind = "absent" <=> (~poll.seen /\ r.code = "none")
          /\ r.kind = "absent" =>
               \/ poll.calls = poll.maxAttempts
               \/ poll.calls >= 1 /\ poll.lastDone >= poll.deadline
          /\ r.kind = "message" <=> poll.seen
          /\ r.kind = "message" =>
               \E i \in 1..Len(list) :
                 /\ list[i] = Message(r.from, r.messageID)
                 /\ passes(list[i])
                 /\ \A j \in 1..(i - 1) : ~passes(list[j])
          /\ r.kind = "error" <=> r.code \in ListFailures

\* A later attempt found a message behind one that the filter rejects.
PollSettlesWitness ==
  /\ poll.pc = "done"
  /\ poll.result.kind = "message"
  /\ poll.calls >= 2
  /\ poll.expectedFrom # NULL
  /\ poll.lastList[1].from # poll.expectedFrom

\* C19: with maxAttempts defaulted and no message ever passing the filter,
\* waitForMessage() returns null no earlier than start + timeoutMs.
NullNotBeforeDeadline ==
  poll.pc = "done" /\ poll.defaulted /\ poll.result.kind = "absent" =>
    poll.returnedAt >= poll.start + poll.timeoutMs

\* C19 as the code has it: it returns null no earlier than the deadline or
\* maxAttempts sleeps of pollInterval after the start, whichever is first;
\* that is no earlier than the deadline when pollInterval divides timeoutMs
\* or exceeds it.
NullNotBeforeAttemptsOrDeadline ==
  LET T == poll.timeoutMs
      P == poll.pollInterval
      n == IF P > T THEN 1 ELSE T \div P
      earliest == IF n * P < T THEN n * P ELSE T
  IN poll.pc = "done" /\ poll.defaulted /\ poll.result.kind = "absent" =>
       /\ poll.returnedAt >= poll.start + earliest
       /\ T % P = 0 \/ P > T => poll.returnedAt >= poll.deadline

\* The attempts ran out and null was returned before the deadline.
NullNotBeforeAttemptsOrDeadlineWitness ==
  /\ poll.pc = "done"
  /\ poll.defaulted
  /\ poll.result.kind = "absent"
  /\ poll.calls = poll.maxAttempts
  /\ poll.returnedAt < poll.deadline

\* C20: waitForMessage() makes at most maxAttempts listMessages() calls and,
\* with maxAttempts defaulted to max(1, floor(timeoutMs / pollInterval)), at
\* least one; a further call starts only when delay(pollInterval) has
\* elapsed since the previous one settled; after a call that settles at or
\* past the deadline it returns without another call and without sleeping.
PollAttemptsBounded ==
  [][/\ poll'.calls <= Max(poll'.maxAttempts, 0)
     /\ poll'.defaulted /\ poll'.pc # "idle" =>
          /\ poll'.maxAttempts >= 1
          /\ \/ poll'.maxAttempts = 1 /\ poll'.pollInterval > poll'.timeoutMs
             \/ /\ poll'.maxAttempts * poll'.pollInterval <= poll'.timeoutMs
                /\ (poll'.maxAttempts + 1) * poll'.pollInterval
                     > poll'.timeoutMs
          /\ poll'.calls >= 1
     /\ poll'.calls # poll.calls =>
          /\ poll'.calls = poll.calls + 1
          /\ poll'.pc = "listing"
          /\ poll.calls >= 1 =>
               /\ poll.pc = "sleeping"
               /\ clock' >= poll.lastDone + poll.pollInterval
     /\ poll.pc = "listing" /\ poll'.pc # "listing"
          /\ clock' >= poll.deadline =>
            /\ poll'.pc = "done"
            /\ poll'.returnedAt = clock'
     /\ poll.pc = "done" => poll' = poll]_vars

\* A call settled past the deadline with attempts left, and
\* waitForMessage() returned null at that moment.
PollAttemptsBoundedWitness ==
  /\ poll.pc = "done"
  /\ poll.result.kind = "absent"
  /\ poll.calls >= 2
  /\ poll.calls < poll.maxAttempts
  /\ poll.lastDone >= poll.deadline
  /\ poll.returnedAt = poll.lastDone

====
